---- MODULE Spec2Model ----
(***************************************************************************)
(* Model of the unidirectional micropayment channel of                     *)
(* micropayment-channel.py: the channel parameters, the sender and the     *)
(* receiver state objects, a ledger on which the refund and the            *)
(* finalization transaction compete for the deposit, the run of the        *)
(* module's test script, and the spend command of hodl.py.                 *)
(***************************************************************************)
EXTENDS Integers, Sequences, FiniteSets, TLC

VARIABLES send_side, recv_side, wire, result, now, chain, test_run, hodl

vars == <<send_side, recv_side, wire, result, now, chain, test_run, hodl>>

(* ---------------------------- bounds ----------------------------------- *)

\* number of distinct payment transactions the sender signs in one run
MaxSends == 2

(* ------------------------- python-bitcoinlib values -------------------- *)

\* Python's None
None == [none |-> TRUE]

\* script elements: opcodes, small-number pushes and data pushes
Op(name) == [op |-> name]
Num(n) == [num |-> n]
Push(d) == [data |-> d]

\* an unsigned 32-bit value as its high and low 16-bit words
UInt32(hi, lo) == <<hi, lo>>

\* CTxIn's default nSequence, 0xFFFFFFFF
SEQUENCE_FINAL == UInt32(65535, 65535)

SIGHASH_ALL == 1
SIGHASH_ANYONECANPAY == 128

COutPoint(hash, n) == [hash |-> hash, n |-> n]

CTxIn(prevout, scriptSig, nSequence) ==
    [prevout |-> prevout, scriptSig |-> scriptSig, nSequence |-> nSequence]

CTxOut(nValue, scriptPubKey) == [nValue |-> nValue, scriptPubKey |-> scriptPubKey]

CTransaction(vin, vout, nLockTime, nVersion) ==
    [vin |-> vin, vout |-> vout, nLockTime |-> nLockTime, nVersion |-> nVersion]

\* The digest commits to the script, the hash type, the outputs, the lock
\* time and version, and to the inputs without their scriptSigs; under
\* ANYONECANPAY only to the input being signed.
SignatureHash(script, txTo, inIdx, hashtype) ==
    [script |-> script,
     hashtype |-> hashtype,
     vin |-> IF hashtype >= SIGHASH_ANYONECANPAY
             THEN <<[prevout |-> txTo.vin[inIdx + 1].prevout,
                     nSequence |-> txTo.vin[inIdx + 1].nSequence]>>
             ELSE [i \in 1..Len(txTo.vin) |->
                     [prevout |-> txTo.vin[i].prevout,
                      nSequence |-> txTo.vin[i].nSequence]],
     vout |-> txTo.vout,
     nLockTime |-> txTo.nLockTime,
     nVersion |-> txTo.nVersion]

\* seckey.sign(sighash) + bytes([hashtype])
Sign(seckey, sighash, hashtype) ==
    [sig |-> [key |-> seckey, digest |-> sighash], hashtype |-> hashtype]

(* ------------------------- the test script's channel ------------------- *)

sender_seckey == "alice"
receiver_seckey == "bob"

P2PKH(seckey) ==
    <<Op("OP_DUP"), Op("OP_HASH160"), Push(<<"hash160", seckey>>),
      Op("OP_EQUALVERIFY"), Op("OP_CHECKSIG")>>

sender_change_scriptPubKey == P2PKH(sender_seckey)
receiver_dest_scriptPubKey == P2PKH(receiver_seckey)

expiry_nlocktime == 1000000000

deposit_outpoint == COutPoint("fixme", 0)

deposit_nValue == 10000000

\* MicropaymentParams.__init__
MicropaymentParams(sender_script, receiver_script, dest_script, expiry, outpoint) ==
    [sender_deposit_scriptPubKey |-> sender_script,
     receiver_deposit_scriptPubKey |-> receiver_script,
     receiver_dest_scriptPubKey |-> dest_script,
     deposit_outpoint |-> outpoint,
     expiry_nlocktime |-> expiry]

channel_params ==
    MicropaymentParams(<<Push(<<"pub", sender_seckey>>), Op("OP_CHECKSIG")>>,
                       <<Push(<<"pub", receiver_seckey>>), Op("OP_CHECKSIGVERIFY")>>,
                       receiver_dest_scriptPubKey,
                       expiry_nlocktime,
                       deposit_outpoint)

\* IF <recv_pub> CHECKSIG ELSE <expiry> 1 NOP2 2DROP ENDIF <send_pub> CHECKSIG
deposit_redeemScript(params) ==
    <<Op("OP_IF")>> \o params.receiver_deposit_scriptPubKey \o
    <<Op("OP_ELSE"), Num(params.expiry_nlocktime), Num(1), Op("OP_NOP2"),
      Op("OP_2DROP"), Op("OP_ENDIF")>> \o
    params.sender_deposit_scriptPubKey

\* MicropaymentParams.make_payment_tx with a zero sequence on the input
params_make_payment_tx_zero_sequence(params, change_nValue, dest_nValue, change_script, txin_scriptSig, nSequence) ==
    CTransaction(<<CTxIn(params.deposit_outpoint, txin_scriptSig, UInt32(0, 0))>>,
                 <<CTxOut(change_nValue, change_script),
                   CTxOut(dest_nValue, params.receiver_dest_scriptPubKey)>>,
                 0, 1)

\* MicropaymentParams.make_payment_tx with the two outputs in the other order
params_make_payment_tx_swapped(params, change_nValue, dest_nValue, change_script, txin_scriptSig, nSequence) ==
    CTransaction(<<CTxIn(params.deposit_outpoint, txin_scriptSig, nSequence)>>,
                 <<CTxOut(dest_nValue, params.receiver_dest_scriptPubKey),
                   CTxOut(change_nValue, change_script)>>,
                 0, 1)

\* MicropaymentParams.make_payment_tx
params_make_payment_tx(params, change_nValue, dest_nValue, change_script, txin_scriptSig, nSequence) ==
    CTransaction(<<CTxIn(params.deposit_outpoint, txin_scriptSig, nSequence)>>,
                 <<CTxOut(change_nValue, change_script),
                   CTxOut(dest_nValue, params.receiver_dest_scriptPubKey)>>,
                 0, 1)

(* ------------------------- MicropaymentChannel ------------------------- *)

\* payment_tx.vout[1].nValue (Python indexes from 0)
calc_payment_value(payment_tx) == payment_tx.vout[2].nValue

total_sent(self) ==
    IF self.last_payment_tx = None
    THEN 0
    ELSE calc_payment_value(self.last_payment_tx)

(* ------------------------- exceptions ---------------------------------- *)

\* no exception
OK == "ok"

\* raise ValueError("Amount to send must be non-negative")
NegativeAmount == "ValueError: Amount to send must be non-negative"

\* raise ValueError("Amount greather than unspent deposit")
InsufficientFunds == "ValueError: Amount greather than unspent deposit"

\* attribute access on None (self.last_payment_tx.vin with no payment)
NoPayment == "AttributeError: 'NoneType' object has no attribute 'vin'"

\* what validate_payment_tx is to raise on a bad payment (nothing raises it)
InvalidPayment == "InvalidPayment"

\* payment_tx.vout[1] on a transaction with fewer than two outputs
IndexError == "IndexError: tuple index out of range"

Return(value) == [err |-> OK, ret |-> value]
Raise(exception) == [err |-> exception, ret |-> None]

(* ------------------------- SenderMicropaymentChannel ------------------- *)

SenderMicropaymentChannel(params, seckey, change_script, nValue) ==
    [params |-> params,
     sender_seckey |-> seckey,
     sender_change_scriptPubKey |-> change_script,
     deposit_nValue |-> nValue,
     last_payment_tx |-> None]

\* make_payment_tx paying the receiver the increment instead of the running total
make_payment_tx_delta_only(self, delta_amount, fee) ==
    IF delta_amount < 0
    THEN Raise(NegativeAmount)
    ELSE LET change_nValue ==
                 self.deposit_nValue - total_sent(self) - delta_amount - fee
         IN  IF change_nValue < 0
             THEN Raise(InsufficientFunds)
             ELSE LET unsigned_tx ==
                          params_make_payment_tx(self.params, change_nValue,
                              delta_amount,
                              self.sender_change_scriptPubKey,
                              <<>>, SEQUENCE_FINAL)
                      sighash ==
                          SignatureHash(deposit_redeemScript(self.params),
                              unsigned_tx, 0, SIGHASH_ANYONECANPAY + SIGHASH_ALL)
                      sig == Sign(self.sender_seckey, sighash,
                                  SIGHASH_ANYONECANPAY + SIGHASH_ALL)
                  IN  Return(params_make_payment_tx(self.params, change_nValue,
                                 delta_amount,
                                 self.sender_change_scriptPubKey,
                                 <<sig>>, SEQUENCE_FINAL))

\* make_payment_tx leaving the fee out of the receiver's value
make_payment_tx_fee_dropped(self, delta_amount, fee) ==
    IF delta_amount < 0
    THEN Raise(NegativeAmount)
    ELSE LET change_nValue ==
                 self.deposit_nValue - total_sent(self) - delta_amount - fee
         IN  IF change_nValue < 0
             THEN Raise(InsufficientFunds)
             ELSE LET unsigned_tx ==
                          params_make_payment_tx(self.params, change_nValue,
                              self.deposit_nValue - change_nValue,
                              self.sender_change_scriptPubKey,
                              <<>>, SEQUENCE_FINAL)
                      sighash ==
                          SignatureHash(deposit_redeemScript(self.params),
                              unsigned_tx, 0, SIGHASH_ANYONECANPAY + SIGHASH_ALL)
                      sig == Sign(self.sender_seckey, sighash,
                                  SIGHASH_ANYONECANPAY + SIGHASH_ALL)
                  IN  Return(params_make_payment_tx(self.params, change_nValue,
                                 self.deposit_nValue - change_nValue,
                                 self.sender_change_scriptPubKey,
                                 <<sig>>, SEQUENCE_FINAL))

\* make_payment_tx refusing a payment that leaves no change
make_payment_tx_zero_change_refused(self, delta_amount, fee) ==
    IF delta_amount < 0
    THEN Raise(NegativeAmount)
    ELSE LET change_nValue ==
                 self.deposit_nValue - total_sent(self) - delta_amount - fee
         IN  IF change_nValue <= 0
             THEN Raise(InsufficientFunds)
             ELSE LET unsigned_tx ==
                          params_make_payment_tx(self.params, change_nValue,
                              self.deposit_nValue - change_nValue - fee,
                              self.sender_change_scriptPubKey,
                              <<>>, SEQUENCE_FINAL)
                      sighash ==
                          SignatureHash(deposit_redeemScript(self.params),
                              unsigned_tx, 0, SIGHASH_ANYONECANPAY + SIGHASH_ALL)
                      sig == Sign(self.sender_seckey, sighash,
                                  SIGHASH_ANYONECANPAY + SIGHASH_ALL)
                  IN  Return(params_make_payment_tx(self.params, change_nValue,
                                 self.deposit_nValue - change_nValue - fee,
                                 self.sender_change_scriptPubKey,
                                 <<sig>>, SEQUENCE_FINAL))

\* make_payment_tx without the check of the change against the deposit
make_payment_tx_unchecked(self, delta_amount, fee) ==
    IF delta_amount < 0
    THEN Raise(NegativeAmount)
    ELSE LET change_nValue ==
                 self.deposit_nValue - total_sent(self) - delta_amount - fee
         IN  IF FALSE
             THEN Raise(InsufficientFunds)
             ELSE LET unsigned_tx ==
                          params_make_payment_tx(self.params, change_nValue,
                              self.deposit_nValue - change_nValue - fee,
                              self.sender_change_scriptPubKey,
                              <<>>, SEQUENCE_FINAL)
                      sighash ==
                          SignatureHash(deposit_redeemScript(self.params),
                              unsigned_tx, 0, SIGHASH_ANYONECANPAY + SIGHASH_ALL)
                      sig == Sign(self.sender_seckey, sighash,
                                  SIGHASH_ANYONECANPAY + SIGHASH_ALL)
                  IN  Return(params_make_payment_tx(self.params, change_nValue,
                                 self.deposit_nValue - change_nValue - fee,
                                 self.sender_change_scriptPubKey,
                                 <<sig>>, SEQUENCE_FINAL))

make_payment_tx(self, delta_amount, fee) ==
    IF delta_amount < 0
    THEN Raise(NegativeAmount)
    ELSE LET change_nValue ==
                 self.deposit_nValue - total_sent(self) - delta_amount - fee
         IN  IF change_nValue < 0
             THEN Raise(InsufficientFunds)
             ELSE LET unsigned_tx ==
                          params_make_payment_tx(self.params, change_nValue,
                              self.deposit_nValue - change_nValue - fee,
                              self.sender_change_scriptPubKey,
                              <<>>, SEQUENCE_FINAL)
                      sighash ==
                          SignatureHash(deposit_redeemScript(self.params),
                              unsigned_tx, 0, SIGHASH_ANYONECANPAY + SIGHASH_ALL)
                      sig == Sign(self.sender_seckey, sighash,
                                  SIGHASH_ANYONECANPAY + SIGHASH_ALL)
                  IN  Return(params_make_payment_tx(self.params, change_nValue,
                                 self.deposit_nValue - change_nValue - fee,
                                 self.sender_change_scriptPubKey,
                                 <<sig>>, SEQUENCE_FINAL))

\* send_payment handing out the transaction without keeping it
send_payment_not_kept(self, delta_amount, fee) ==
    LET out == make_payment_tx(self, delta_amount, fee)
    IN  [self |-> self, out |-> out]

\* the sender state after send_payment, and what the call returns or raises
send_payment(self, delta_amount, fee) ==
    LET out == make_payment_tx(self, delta_amount, fee)
    IN  [self |-> IF out.err = OK
                  THEN [self EXCEPT !.last_payment_tx = out.ret]
                  ELSE self,
         out |-> out]

\* make_refund_tx refunding only what has not been sent
make_refund_tx_less_sent(self, fee) ==
    LET unsigned_tx ==
            CTransaction(<<CTxIn(self.params.deposit_outpoint, <<>>, UInt32(0, 0))>>,
                         <<CTxOut(self.deposit_nValue - total_sent(self) - fee,
                                  self.sender_change_scriptPubKey)>>,
                         self.params.expiry_nlocktime, 1)
        sighash == SignatureHash(deposit_redeemScript(self.params),
                                 unsigned_tx, 0, SIGHASH_ALL)
        sig == Sign(self.sender_seckey, sighash, SIGHASH_ALL)
        signed_scriptSig ==
            <<sig, Num(0), [script |-> deposit_redeemScript(self.params)]>>
    IN  Return(CTransaction(<<CTxIn(unsigned_tx.vin[1].prevout, signed_scriptSig,
                                  UInt32(0, 0))>>,
                            unsigned_tx.vout,
                            unsigned_tx.nLockTime, 1))

\* make_refund_tx without the lock time
make_refund_tx_unlocked(self, fee) ==
    LET unsigned_tx ==
            CTransaction(<<CTxIn(self.params.deposit_outpoint, <<>>, UInt32(0, 0))>>,
                         <<CTxOut(self.deposit_nValue - fee,
                                  self.sender_change_scriptPubKey)>>,
                         0, 1)
        sighash == SignatureHash(deposit_redeemScript(self.params),
                                 unsigned_tx, 0, SIGHASH_ALL)
        sig == Sign(self.sender_seckey, sighash, SIGHASH_ALL)
        signed_scriptSig ==
            <<sig, Num(0), [script |-> deposit_redeemScript(self.params)]>>
    IN  Return(CTransaction(<<CTxIn(unsigned_tx.vin[1].prevout, signed_scriptSig,
                                  UInt32(0, 0))>>,
                            unsigned_tx.vout,
                            unsigned_tx.nLockTime, 1))

make_refund_tx(self, fee) ==
    LET unsigned_tx ==
            CTransaction(<<CTxIn(self.params.deposit_outpoint, <<>>, UInt32(0, 0))>>,
                         <<CTxOut(self.deposit_nValue - fee,
                                  self.sender_change_scriptPubKey)>>,
                         self.params.expiry_nlocktime, 1)
        sighash == SignatureHash(deposit_redeemScript(self.params),
                                 unsigned_tx, 0, SIGHASH_ALL)
        sig == Sign(self.sender_seckey, sighash, SIGHASH_ALL)
        signed_scriptSig ==
            <<sig, Num(0), [script |-> deposit_redeemScript(self.params)]>>
    IN  Return(CTransaction(<<CTxIn(unsigned_tx.vin[1].prevout, signed_scriptSig,
                                  UInt32(0, 0))>>,
                            unsigned_tx.vout,
                            unsigned_tx.nLockTime, 1))

(* ------------------------- ReceiverMicropaymentChannel ----------------- *)

ReceiverMicropaymentChannel(params, seckey, nValue) ==
    [params |-> params,
     receiver_seckey |-> seckey,
     deposit_nValue |-> nValue,
     last_payment_tx |-> None]

\* "FIXME: implement!": the body is empty, nothing is checked or raised
validate_payment_tx(self, payment_tx) == OK

\* recv_payment_tx storing on delta_nValue >= 0 instead of > 0
recv_payment_tx_store_equal(self, payment_tx) ==
    IF Len(payment_tx.vout) < 2
    THEN [self |-> self, out |-> Raise(IndexError)]
    ELSE LET payment_value == calc_payment_value(payment_tx)
         IN  IF self.last_payment_tx = None
             THEN [self |-> [self EXCEPT !.last_payment_tx = payment_tx],
                   out |-> Return(payment_value)]
             ELSE LET delta_nValue ==
                          payment_value - calc_payment_value(self.last_payment_tx)
                  IN  [self |-> IF delta_nValue >= 0
                                THEN [self EXCEPT !.last_payment_tx = payment_tx]
                                ELSE self,
                       out |-> Return(delta_nValue)]

\* recv_payment_tx returning the payment's value instead of the delta
recv_payment_tx_returns_value(self, payment_tx) ==
    IF Len(payment_tx.vout) < 2
    THEN [self |-> self, out |-> Raise(IndexError)]
    ELSE LET payment_value == calc_payment_value(payment_tx)
         IN  IF self.last_payment_tx = None
             THEN [self |-> [self EXCEPT !.last_payment_tx = payment_tx],
                   out |-> Return(payment_value)]
             ELSE LET delta_nValue ==
                          payment_value - calc_payment_value(self.last_payment_tx)
                  IN  [self |-> IF delta_nValue > 0
                                THEN [self EXCEPT !.last_payment_tx = payment_tx]
                                ELSE self,
                       out |-> Return(payment_value)]

\* the receiver state after the call, and what the call returns or raises
recv_payment_tx(self, payment_tx) ==
    IF validate_payment_tx(self, payment_tx) # OK
    THEN [self |-> self, out |-> Raise(validate_payment_tx(self, payment_tx))]
    ELSE IF Len(payment_tx.vout) < 2
    THEN [self |-> self, out |-> Raise(IndexError)]
    ELSE LET payment_value == calc_payment_value(payment_tx)
         IN  IF self.last_payment_tx = None
             THEN [self |-> [self EXCEPT !.last_payment_tx = payment_tx],
                   out |-> Return(payment_value)]
             ELSE LET delta_nValue ==
                          payment_value - calc_payment_value(self.last_payment_tx)
                  IN  [self |-> IF delta_nValue > 0
                                THEN [self EXCEPT !.last_payment_tx = payment_tx]
                                ELSE self,
                       out |-> Return(delta_nValue)]

\* make_finalization_tx answering an empty transaction when no payment is stored
make_finalization_tx_empty(self) ==
    IF self.last_payment_tx = None
    THEN Return(CTransaction(<<>>, <<>>, 0, 1))
    ELSE LET last == self.last_payment_tx
             sighash == SignatureHash(deposit_redeemScript(self.params),
                                      last, 0, SIGHASH_ALL)
             sig == Sign(self.receiver_seckey, sighash, SIGHASH_ALL)
             signed_scriptSig ==
                 last.vin[1].scriptSig \o
                 <<sig, Num(1), [script |-> deposit_redeemScript(self.params)]>>
         IN  Return(CTransaction(<<CTxIn(last.vin[1].prevout, signed_scriptSig,
                                         last.vin[1].nSequence)>>,
                                 last.vout,
                                 last.nLockTime,
                                 last.nVersion))

\* make_finalization_tx locked to the expiry, as the refund is
make_finalization_tx_expiry(self) ==
    IF self.last_payment_tx = None
    THEN Raise(NoPayment)
    ELSE LET last == self.last_payment_tx
             sighash == SignatureHash(deposit_redeemScript(self.params),
                                      last, 0, SIGHASH_ALL)
             sig == Sign(self.receiver_seckey, sighash, SIGHASH_ALL)
             signed_scriptSig ==
                 last.vin[1].scriptSig \o
                 <<sig, Num(1), [script |-> deposit_redeemScript(self.params)]>>
         IN  Return(CTransaction(<<CTxIn(last.vin[1].prevout, signed_scriptSig,
                                         last.vin[1].nSequence)>>,
                                 last.vout,
                                 self.params.expiry_nlocktime,
                                 last.nVersion))

make_finalization_tx(self) ==
    IF self.last_payment_tx = None
    THEN Raise(NoPayment)
    ELSE LET last == self.last_payment_tx
             sighash == SignatureHash(deposit_redeemScript(self.params),
                                      last, 0, SIGHASH_ALL)
             sig == Sign(self.receiver_seckey, sighash, SIGHASH_ALL)
             signed_scriptSig ==
                 last.vin[1].scriptSig \o
                 <<sig, Num(1), [script |-> deposit_redeemScript(self.params)]>>
         IN  Return(CTransaction(<<CTxIn(last.vin[1].prevout, signed_scriptSig,
                                         last.vin[1].nSequence)>>,
                                 last.vout,
                                 last.nLockTime,
                                 last.nVersion))

(* ------------------------- inputs -------------------------------------- *)

\* the delta_amount arguments tried
Deltas == {-1, 0, 1, 5000000}

\* the fee arguments tried
Fees == {-1, 0, 100000}

\* an outpoint that is not the channel's deposit
other_outpoint == COutPoint("other", 0)

\* a payment-shaped transaction over any outpoint and outputs, signed as the
\* sender signs a payment (ANYONECANPAY | ALL over the deposit script)
SignedSpend(prevout, vout, seckey) ==
    LET unsigned_tx ==
            CTransaction(<<CTxIn(prevout, <<>>, SEQUENCE_FINAL)>>, vout, 0, 1)
        sighash == SignatureHash(deposit_redeemScript(channel_params),
                       unsigned_tx, 0, SIGHASH_ANYONECANPAY + SIGHASH_ALL)
        sig == Sign(seckey, sighash, SIGHASH_ANYONECANPAY + SIGHASH_ALL)
    IN  CTransaction(<<CTxIn(prevout, <<sig>>, SEQUENCE_FINAL)>>, vout, 0, 1)

\* the receiver-destined values of the forged transactions
ForgedValues == {1}

\* transactions handed to the receiver that the sender object never returned
Forged ==
    UNION {
      { \* well formed, but never stored by the sender
        SignedSpend(deposit_outpoint,
            <<CTxOut(deposit_nValue - v, sender_change_scriptPubKey),
              CTxOut(v, receiver_dest_scriptPubKey)>>, sender_seckey),
        \* spends another outpoint
        SignedSpend(other_outpoint,
            <<CTxOut(deposit_nValue - v, sender_change_scriptPubKey),
              CTxOut(v, receiver_dest_scriptPubKey)>>, sender_seckey),
        \* three outputs
        SignedSpend(deposit_outpoint,
            <<CTxOut(0, sender_change_scriptPubKey),
              CTxOut(v, receiver_dest_scriptPubKey),
              CTxOut(deposit_nValue - v, sender_change_scriptPubKey)>>,
            sender_seckey),
        \* a single output
        SignedSpend(deposit_outpoint,
            <<CTxOut(v, receiver_dest_scriptPubKey)>>, sender_seckey),
        \* output [1] pays the sender
        SignedSpend(deposit_outpoint,
            <<CTxOut(deposit_nValue - v, receiver_dest_scriptPubKey),
              CTxOut(v, sender_change_scriptPubKey)>>, sender_seckey),
        \* not signed by the sender
        SignedSpend(deposit_outpoint,
            <<CTxOut(deposit_nValue - v, sender_change_scriptPubKey),
              CTxOut(v, receiver_dest_scriptPubKey)>>, "mallory")
      } : v \in ForgedValues }

(* ------------------------- the ledger ---------------------------------- *)

\* the amounts and the fee of the test script's run
LedgerDeltas == {1, 5000000}
LedgerFee == 100000

\* a payment that spends an outpoint other than the deposit
LedgerForged ==
    { SignedSpend(other_outpoint,
          <<CTxOut(deposit_nValue - 1, sender_change_scriptPubKey),
            CTxOut(1, receiver_dest_scriptPubKey)>>, sender_seckey) }

\* the ledger times observed: before, just before and at the expiry
Times == {0, expiry_nlocktime - 1, expiry_nlocktime}

\* the outpoints spent by the confirmed transactions
Spent == UNION { { c.tx.vin[i].prevout : i \in 1..Len(c.tx.vin) } : c \in chain }

\* an outpoint is spent at most once; a transaction is accepted only once
\* the ledger time has reached its lock time
Acceptable(tx) ==
    /\ \A i \in 1..Len(tx.vin) : tx.vin[i].prevout \notin Spent
    /\ now >= tx.nLockTime

(* ------------------------- state machine ------------------------------- *)

\* the test script is not running
NoScript == [pc |-> "none"]

\* no hodl command is running
NoCommand == [pc |-> "none"]

Call(op, args, out) == [op |-> op, args |-> args, err |-> out.err, ret |-> out.ret]

Init ==
    /\ send_side = SenderMicropaymentChannel(channel_params, sender_seckey,
                        sender_change_scriptPubKey, deposit_nValue)
    /\ recv_side = ReceiverMicropaymentChannel(channel_params, receiver_seckey,
                        deposit_nValue)
    /\ wire = {}
    /\ result = Call("init", <<>>, Return(None))
    /\ now = 0
    /\ chain = {}
    /\ test_run = NoScript
    /\ hodl = NoCommand

\* make_payment_tx keeping the transaction it made as last_payment_tx
MakePaymentTx_stores(delta_amount, fee) ==
    LET r == send_payment(send_side, delta_amount, fee)
    IN  /\ result' = Call("make_payment_tx", <<delta_amount, fee>>, r.out)
        /\ send_side' = r.self
        /\ UNCHANGED <<recv_side, wire, now, chain, test_run, hodl>>

\* send_side.make_payment_tx(delta_amount, fee=fee)
MakePaymentTx(delta_amount, fee) ==
    /\ result' = Call("make_payment_tx", <<delta_amount, fee>>,
                      make_payment_tx(send_side, delta_amount, fee))
    /\ UNCHANGED <<send_side, recv_side, wire, now, chain, test_run, hodl>>

\* send_side.send_payment(delta_amount, fee=fee); the returned transaction
\* goes to the receiver off-band
SendPayment(delta_amount, fee) ==
    LET r == send_payment(send_side, delta_amount, fee)
    IN  /\ Cardinality(wire) < MaxSends
        /\ result' = Call("send_payment", <<delta_amount, fee>>, r.out)
        /\ send_side' = r.self
        /\ wire' = IF r.out.err = OK THEN wire \cup {r.out.ret} ELSE wire
        /\ UNCHANGED <<recv_side, now, chain, test_run, hodl>>

\* send_side.make_refund_tx(fee=fee)
MakeRefundTx(fee) ==
    /\ result' = Call("make_refund_tx", <<fee>>, make_refund_tx(send_side, fee))
    /\ UNCHANGED <<send_side, recv_side, wire, now, chain, test_run, hodl>>

\* recv_side.recv_payment_tx(payment_tx)
RecvPaymentTx(payment_tx) ==
    LET r == recv_payment_tx(recv_side, payment_tx)
    IN  /\ recv_side' = r.self
        /\ result' = Call("recv_payment_tx", <<payment_tx>>, r.out)
        /\ UNCHANGED <<send_side, wire, now, chain, test_run, hodl>>

\* recv_side.make_finalization_tx()
MakeFinalizationTx ==
    /\ result' = Call("make_finalization_tx", <<>>, make_finalization_tx(recv_side))
    /\ UNCHANGED <<send_side, recv_side, wire, now, chain, test_run, hodl>>

\* the transaction just made is broadcast and the ledger confirms it
Confirm ==
    /\ result.op \in {"make_refund_tx", "make_finalization_tx"}
    /\ result.err = OK
    /\ Acceptable(result.ret)
    /\ chain' = chain \cup {[kind |-> result.op, tx |-> result.ret]}
    /\ UNCHANGED <<send_side, recv_side, wire, result, now, test_run, hodl>>

\* ledger time passes
Tick ==
    /\ \E t \in Times :
          /\ t > now
          /\ \A u \in Times : u > now => t <= u
          /\ now' = t
    /\ UNCHANGED <<send_side, recv_side, wire, result, chain, test_run, hodl>>

\* the two parties' calls, in any order and with any arguments
Next ==
    \/ \E d \in Deltas, f \in Fees : MakePaymentTx(d, f)
    \/ \E d \in Deltas, f \in Fees : SendPayment(d, f)
    \/ \E f \in Fees : MakeRefundTx(f)
    \/ \E tx \in wire \cup Forged : RecvPaymentTx(tx)
    \/ MakeFinalizationTx

Spec == Init /\ [][Next]_vars

\* the channel on the ledger: payments of the test script's amounts and fee,
\* then the refund and the finalization broadcast as time passes
LedgerNext ==
    \/ \E d \in LedgerDeltas : SendPayment(d, LedgerFee)
    \/ MakeRefundTx(LedgerFee)
    \/ \E tx \in wire \cup LedgerForged : RecvPaymentTx(tx)
    \/ MakeFinalizationTx
    \/ Confirm
    \/ Tick

LedgerSpec == Init /\ [][LedgerNext]_vars

\* amounts up to the whole deposit
SenderDeltas == Deltas \cup {deposit_nValue - LedgerFee, deposit_nValue}

\* fees a caller would pay
SenderFees == {f \in Fees : f >= 0}

\* the sender alone, called with non-negative fees
SenderNext ==
    \/ \E d \in SenderDeltas, f \in SenderFees : MakePaymentTx(d, f)
    \/ \E d \in SenderDeltas, f \in SenderFees : SendPayment(d, f)
    \/ \E f \in SenderFees : MakeRefundTx(f)

SenderSpec == Init /\ [][SenderNext]_vars

\* the two parties with nothing on the channel between them but what
\* send_payment returned: delivered in any order, more than once, or never
HonestNext ==
    \/ \E d \in Deltas, f \in Fees : SendPayment(d, f)
    \/ \E tx \in wire : RecvPaymentTx(tx)
    \/ MakeFinalizationTx

HonestSpec == Init /\ [][HonestNext]_vars

(* ------------------------- the test script ----------------------------- *)

\* the first amount sent: deposit_nValue/2, a true division whose result is
\* whole for the even deposit and is kept as an integer by CTxOut
ScriptFirst == {0, 1, deposit_nValue \div 2, deposit_nValue - LedgerFee}

\* the amount sent in the loop
ScriptSecond == {0, 1, 2}

\* fee
ScriptFees == {0, LedgerFee}

\* the script about to run its first send_payment
ScriptStart(first, second, fee) ==
    [pc |-> "send_first", first |-> first, second |-> second, fee |-> fee,
     payment_tx |-> None, payment_value |-> None,
     finalization_tx |-> None, refund_tx |-> None]

ScriptInit ==
    /\ send_side = SenderMicropaymentChannel(channel_params, sender_seckey,
                        sender_change_scriptPubKey, deposit_nValue)
    /\ recv_side = ReceiverMicropaymentChannel(channel_params, receiver_seckey,
                        deposit_nValue)
    /\ wire = {}
    /\ result = Call("init", <<>>, Return(None))
    /\ now = 0
    /\ chain = {}
    /\ test_run \in {ScriptStart(a, b, f) :
                        a \in ScriptFirst, b \in ScriptSecond, f \in ScriptFees}
    /\ hodl = NoCommand

\* payment_tx = send_side.send_payment(deposit_nValue/2, fee=fee)
ScriptSendFirst ==
    LET r == send_payment(send_side, test_run.first, test_run.fee)
    IN  /\ test_run.pc = "send_first"
        /\ send_side' = r.self
        /\ test_run' = IF r.out.err = OK
                        THEN [test_run EXCEPT !.pc = "send_second",
                                              !.payment_tx = r.out.ret]
                        ELSE [test_run EXCEPT !.pc = "raised"]
        /\ UNCHANGED <<recv_side, wire, result, now, chain, hodl>>

\* payment_tx = send_side.send_payment(1, fee=fee), in the loop
ScriptSendSecond ==
    LET r == send_payment(send_side, test_run.second, test_run.fee)
    IN  /\ test_run.pc = "send_second"
        /\ send_side' = r.self
        /\ test_run' = IF r.out.err = OK
                        THEN [test_run EXCEPT !.pc = "recv",
                                              !.payment_tx = r.out.ret]
                        ELSE [test_run EXCEPT !.pc = "raised"]
        /\ UNCHANGED <<recv_side, wire, result, now, chain, hodl>>

\* the loop's recv given the payment before it as well
ScriptRecv_both_delivered ==
    LET first_tx == send_payment(SenderMicropaymentChannel(channel_params,
                                     sender_seckey, sender_change_scriptPubKey,
                                     deposit_nValue),
                                 test_run.first, test_run.fee).out.ret
        r == recv_payment_tx(recv_payment_tx(recv_side, first_tx).self,
                             test_run.payment_tx)
    IN  /\ test_run.pc = "recv"
        /\ recv_side' = r.self
        /\ test_run' = IF r.out.err = OK
                        THEN [test_run EXCEPT !.pc = "finalize",
                                              !.payment_value = r.out.ret]
                        ELSE [test_run EXCEPT !.pc = "raised"]
        /\ UNCHANGED <<send_side, wire, result, now, chain, hodl>>

\* payment_value = recv_side.recv_payment_tx(payment_tx), in the loop
ScriptRecv ==
    LET r == recv_payment_tx(recv_side, test_run.payment_tx)
    IN  /\ test_run.pc = "recv"
        /\ recv_side' = r.self
        /\ test_run' = IF r.out.err = OK
                        THEN [test_run EXCEPT !.pc = "finalize",
                                              !.payment_value = r.out.ret]
                        ELSE [test_run EXCEPT !.pc = "raised"]
        /\ UNCHANGED <<send_side, wire, result, now, chain, hodl>>

\* finalization_tx = recv_side.make_finalization_tx()
ScriptFinalize ==
    LET out == make_finalization_tx(recv_side)
    IN  /\ test_run.pc = "finalize"
        /\ test_run' = IF out.err = OK
                        THEN [test_run EXCEPT !.pc = "refund",
                                              !.finalization_tx = out.ret]
                        ELSE [test_run EXCEPT !.pc = "raised"]
        /\ UNCHANGED <<send_side, recv_side, wire, result, now, chain, hodl>>

\* refund_tx = send_side.make_refund_tx(fee=fee)
ScriptRefund ==
    LET out == make_refund_tx(send_side, test_run.fee)
    IN  /\ test_run.pc = "refund"
        /\ test_run' = IF out.err = OK
                        THEN [test_run EXCEPT !.pc = "done",
                                              !.refund_tx = out.ret]
                        ELSE [test_run EXCEPT !.pc = "raised"]
        /\ UNCHANGED <<send_side, recv_side, wire, result, now, chain, hodl>>

ScriptNext ==
    \/ ScriptSendFirst
    \/ ScriptSendSecond
    \/ ScriptRecv
    \/ ScriptFinalize
    \/ ScriptRefund

ScriptSpec == ScriptInit /\ [][ScriptNext]_vars

(* ------------------------- hodl.py: float arithmetic ------------------- *)

\* Python floats are IEEE doubles: a significand of 53 bits, kept here as a
\* sequence of bits with the most significant first, times 2^e; results are
\* rounded to nearest, ties to even.
SignificandBits == 53

\* the width of the digits in which a significand is multiplied
LimbBits == 4

RECURSIVE Pow2(_)
Pow2(h) == IF h = 0 THEN 1 ELSE 2 * Pow2(h - 1)

\* 2^i modulo d, by squaring
RECURSIVE Pow2Mod(_, _)
Pow2Mod(i, d) ==
    IF i = 0
    THEN 1 % d
    ELSE IF i % 2 = 0
    THEN (Pow2Mod(i \div 2, d) * Pow2Mod(i \div 2, d)) % d
    ELSE (2 * Pow2Mod(i - 1, d)) % d

\* the number of bits of v, for v below 2^30
BitLen(v) ==
    CHOOSE l \in 0..30 : v < Pow2(l) /\ (l = 0 \/ v >= Pow2(l - 1))

\* the bits of v, without leading zeros
IntToBits(v) == [i \in 1..BitLen(v) |-> (v \div Pow2(BitLen(v) - i)) % 2]

\* the w low bits of v
LowBits(v, w) == [i \in 1..w |-> (v \div Pow2(w - i)) % 2]

\* the integer of at most 30 bits
RECURSIVE BitsToInt(_)
BitsToInt(bits) ==
    IF bits = <<>>
    THEN 0
    ELSE IF Len(bits) = 1
    THEN bits[1]
    ELSE BitsToInt(SubSeq(bits, 1, Len(bits) \div 2))
            * Pow2(Len(bits) - Len(bits) \div 2)
         + BitsToInt(SubSeq(bits, Len(bits) \div 2 + 1, Len(bits)))

\* digit j of bits, counted from the least significant digit 0
Limb(bits, j) ==
    BitsToInt(SubSeq(bits,
                     IF Len(bits) - LimbBits * j - (LimbBits - 1) < 1
                     THEN 1
                     ELSE Len(bits) - LimbBits * j - (LimbBits - 1),
                     Len(bits) - LimbBits * j))

\* the bits of bits * k + carry * 2^(LimbBits * j) from digit j upwards,
\* for k below 2^27
RECURSIVE MulLimbs(_, _, _, _)
MulLimbs(bits, k, j, carry) ==
    IF LimbBits * (j + 1) >= Len(bits)
    THEN IntToBits(Limb(bits, j) * k + carry)
    ELSE MulLimbs(bits, k, j + 1,
                  (Limb(bits, j) * k + carry) \div Pow2(LimbBits))
         \o LowBits((Limb(bits, j) * k + carry) % Pow2(LimbBits), LimbBits)

\* bits + 1
IncBits(bits) ==
    IF \A i \in 1..Len(bits) : bits[i] = 1
    THEN <<1>> \o [i \in 1..Len(bits) |-> 0]
    ELSE LET z == CHOOSE c \in 1..Len(bits) :
                      bits[c] = 0 /\ \A i \in (c + 1)..Len(bits) : bits[i] = 1
         IN  [i \in 1..Len(bits) |->
                 IF i < z THEN bits[i] ELSE IF i = z THEN 1 ELSE 0]

\* round-to-nearest-even of bits (at least 53 of them, leading bit 1) to 53
\* bits; sticky tells of a non-zero rest below the bits given. up is 1 when
\* the rounding carried into a new leading bit.
RoundToDouble(bits, sticky) ==
    LET keep == SubSeq(bits, 1, SignificandBits)
        guard == IF Len(bits) > SignificandBits
                 THEN bits[SignificandBits + 1] ELSE 0
        rest == sticky \/ \E i \in (SignificandBits + 2)..Len(bits) : bits[i] = 1
        inc == guard = 1 /\ (rest \/ keep[SignificandBits] = 1)
        rounded == IF inc THEN IncBits(keep) ELSE keep
    IN  [m |-> SubSeq(rounded, 1, SignificandBits),
         up |-> IF Len(rounded) > SignificandBits THEN 1 ELSE 0]

\* the first k fraction bits of a / d, for 0 <= a < d < 2^15
DivBits(a, d, k) ==
    [i \in 1..k |-> (2 * ((a * Pow2Mod(i - 1, d)) % d)) \div d]

\* what is left of a after k fraction bits
DivRem(a, d, k) == (a * Pow2Mod(k, d)) % d

\* the zero bits before the first fraction bit of r / d, for 0 < r < d
RECURSIVE LeadingZeros(_, _)
LeadingZeros(r, d) == IF 2 * r >= d THEN 0 ELSE 1 + LeadingZeros(2 * r, d)

\* the least h with a < b * 2^h
RECURSIVE IntegerBits(_, _)
IntegerBits(a, b) == IF a < b THEN 0 ELSE 1 + IntegerBits(a, 2 * b)

\* a / b for positive integers a and b: Python's true division
true_div(a, b) ==
    LET h == IntegerBits(a, b)
        den == b * Pow2(h)
        lz == LeadingZeros(a, den)
        quot == DivBits(a, den, lz + SignificandBits + 1)
        rnd == RoundToDouble(SubSeq(quot, lz + 1, lz + SignificandBits + 1),
                             DivRem(a, den, lz + SignificandBits + 1) # 0)
    IN  [m |-> rnd.m, e |-> h - lz - SignificandBits + rnd.up]

\* x * k for a float x and a positive integer k below 2^27
float_mul(x, k) ==
    LET prod == MulLimbs(x.m, k, 0, 0)
        rnd == RoundToDouble(prod, FALSE)
    IN  [m |-> rnd.m, e |-> x.e + (Len(prod) - SignificandBits) + rnd.up]

\* int(x) for a positive float x below 2^30
int_of_float(x) ==
    IF -x.e >= SignificandBits
    THEN 0
    ELSE BitsToInt(SubSeq(x.m, 1, SignificandBits + x.e))

(* ------------------------- hodl.py: spend ------------------------------ *)

COIN == 100000000

tx_size(n) == 4 + 2 + n * 153 + 1 + 34 + 4

\* feerate = int(estimatefee * COIN), the estimate counted in satoshis,
\* and 10000 when that is not positive
feerate(estimate) == IF estimate <= 0 THEN 10000 ELSE estimate

\* int(tx_size / 1000 * feerate)
fees(size, rate) ==
    IF rate = 0
    THEN 0
    ELSE IF rate < 0
    THEN 0 - int_of_float(float_mul(true_div(size, 1000), 0 - rate))
    ELSE int_of_float(float_mul(true_div(size, 1000), rate))

MaxInputs == 2

ValueError == "ValueError"

\* a string of the command line, by what the parsers make of it: the number
\* of bytes it stands for as hexadecimal and the integer it stands for as
\* decimal, each as a sequence that is empty where the string is not such
Str(text, hexbytes, int) == [text |-> text, hexbytes |-> hexbytes, int |-> int]

\* lx(h): the bytes of a hexadecimal string
lx(h) ==
    IF h.hexbytes = <<>>
    THEN Raise(ValueError)
    ELSE Return([id |-> h.text, len |-> h.hexbytes[1]])

\* int(s)
int(str) == IF str.int = <<>> THEN Raise(ValueError) ELSE Return(str.int[1])

\* COutPoint(hash, n) as the library checks it: a hash of 32 bytes and an
\* unsigned index
checked_COutPoint(hash, n) ==
    IF hash.len # 32 \/ n < 0
    THEN Raise(ValueError)
    ELSE Return(COutPoint(hash.id, n))

\* txid,n = prevout.split(':'); COutPoint(lx(txid), int(n)); the argument
\* is kept as the fields between its colons
parse_prevout(prevout) ==
    IF Len(prevout) # 2
    THEN Raise(ValueError)
    ELSE IF lx(prevout[1]).err # OK
    THEN Raise(ValueError)
    ELSE IF int(prevout[2]).err # OK
    THEN Raise(ValueError)
    ELSE checked_COutPoint(lx(prevout[1]).ret, int(prevout[2]).ret)

hodl_redeemScript(privkey, nLockTime) ==
    <<Num(nLockTime), Op("OP_NOP2"), Op("OP_DROP"),
      Push(<<"pub", privkey>>), Op("OP_CHECKSIG")>>

\* CScript.to_p2sh_scriptPubKey
to_p2sh_scriptPubKey(script) ==
    <<Op("OP_HASH160"), Push(<<"hash160", script>>), Op("OP_EQUAL")>>

spend_hodl_redeemScript(privkey, nLockTime, unsigned_tx, n) ==
    LET redeemScript == hodl_redeemScript(privkey, nLockTime)
        sighash == SignatureHash(redeemScript, unsigned_tx, n, SIGHASH_ALL)
        sig == Sign(privkey, sighash, SIGHASH_ALL)
    IN  <<sig, [script |-> redeemScript]>>

\* the key, lock times and address of the command line
hodl_privkey == "hodler"
LockTimes == {500000, 1000000000}
hodl_addr == P2PKH("carol")

TxidA == Str("aa..aa", <<32>>, <<>>)
TxidB == Str("bb..bb", <<32>>, <<>>)

\* the txid:n arguments tried: outputs that exist, one that does not, and
\* arguments that are not an outpoint
PrevoutArgs ==
    {<<TxidA, Str("0", <<>>, <<0>>)>>,
     <<TxidA, Str("1", <<>>, <<1>>)>>,
     <<TxidB, Str("0", <<>>, <<0>>)>>,
     <<TxidB, Str("1", <<>>, <<1>>)>>,
     <<TxidA>>,
     <<TxidA, Str("0", <<>>, <<0>>), Str("0", <<>>, <<0>>)>>,
     <<Str("zz..zz", <<>>, <<>>), Str("0", <<>>, <<0>>)>>,
     <<Str("abcd", <<2>>, <<>>), Str("0", <<>>, <<0>>)>>,
     <<TxidA, Str("x", <<>>, <<>>)>>,
     <<TxidA, Str("-1", <<>>, <<-1>>)>>}

\* the unspent outputs the node knows: two locked by the hodl script of the
\* first lock time, one by that of the second
UTXO ==
    (COutPoint("aa..aa", 0)
        :> CTxOut(100000, to_p2sh_scriptPubKey(hodl_redeemScript(hodl_privkey, 500000))))
    @@ (COutPoint("aa..aa", 1)
        :> CTxOut(2000, to_p2sh_scriptPubKey(hodl_redeemScript(hodl_privkey, 500000))))
    @@ (COutPoint("bb..bb", 0)
        :> CTxOut(50000, to_p2sh_scriptPubKey(hodl_redeemScript(hodl_privkey, 1000000000))))

\* proxy.gettxout(outpoint)
gettxout(outpoint) ==
    IF outpoint \in DOMAIN UTXO
    THEN Return([txout |-> UTXO[outpoint]])
    ELSE Raise(IndexError)

\* what estimatefee answers, counted in satoshis per KB as int(x * COIN)
\* counts it: -1 coin when it has no estimate
Estimates == {0 - COIN, 0, 1, 5, 10000, 11000}

\* one turn of the loop without the comparison of the scriptPubKey
spend_prevout_any_script(scriptPubKey, prevout) ==
    IF parse_prevout(prevout).err # OK
    THEN Raise("Invalid output")
    ELSE LET outpoint == parse_prevout(prevout).ret
         IN  IF gettxout(outpoint).err # OK
             THEN Raise("Outpoint not found")
             ELSE Return(<<outpoint, gettxout(outpoint).ret.txout>>)

\* one turn of the loop over args.prevouts: the pair appended to prevouts, or
\* the message given to parser.error
spend_prevout(scriptPubKey, prevout) ==
    IF parse_prevout(prevout).err # OK
    THEN Raise("Invalid output")
    ELSE LET outpoint == parse_prevout(prevout).ret
         IN  IF gettxout(outpoint).err # OK
             THEN Raise("Outpoint not found")
             ELSE IF gettxout(outpoint).ret.txout.scriptPubKey # scriptPubKey
             THEN Raise("Outpoint not correct scriptPubKey")
             ELSE Return(<<outpoint, gettxout(outpoint).ret.txout>>)

\* sum(prev_txout.nValue for outpoint,prev_txout in prevouts)
RECURSIVE sum_in(_)
sum_in(prevouts) ==
    IF prevouts = <<>>
    THEN 0
    ELSE Head(prevouts)[2].nValue + sum_in(Tail(prevouts))

\* signed_tx with the inputs left at the default sequence number
signed_tx_final_sequence(args, prevouts, fee) ==
    LET unsigned_tx ==
            CTransaction([i \in 1..Len(prevouts) |->
                             CTxIn(prevouts[i][1], <<>>, SEQUENCE_FINAL)],
                         <<CTxOut(sum_in(prevouts) - fee, args.addr)>>,
                         args.nLockTime, 1)
    IN  CTransaction([i \in 1..Len(unsigned_tx.vin) |->
                         CTxIn(unsigned_tx.vin[i].prevout,
                               spend_hodl_redeemScript(args.privkey,
                                   args.nLockTime, unsigned_tx, i - 1),
                               SEQUENCE_FINAL)],
                     unsigned_tx.vout,
                     unsigned_tx.nLockTime, 1)

\* unsigned_tx, then signed_tx
signed_tx(args, prevouts, fee) ==
    LET unsigned_tx ==
            CTransaction([i \in 1..Len(prevouts) |->
                             CTxIn(prevouts[i][1], <<>>, UInt32(0, 0))],
                         <<CTxOut(sum_in(prevouts) - fee, args.addr)>>,
                         args.nLockTime, 1)
    IN  CTransaction([i \in 1..Len(unsigned_tx.vin) |->
                         CTxIn(unsigned_tx.vin[i].prevout,
                               spend_hodl_redeemScript(args.privkey,
                                   args.nLockTime, unsigned_tx, i - 1),
                               UInt32(0, 0))],
                     unsigned_tx.vout,
                     unsigned_tx.nLockTime, 1)

\* the sequences of 1 to k prevout arguments
RECURSIVE PrevoutLists(_)
PrevoutLists(k) ==
    IF k = 0
    THEN {}
    ELSE {<<a>> : a \in PrevoutArgs}
         \cup PrevoutLists(k - 1)
         \cup {l \o <<a>> : l \in PrevoutLists(k - 1), a \in PrevoutArgs}

\* args as parse_args leaves them, and spend_command about to run
SpendStart(nLockTime, prevout_args) ==
    [pc |-> "spend_command",
     args |-> [privkey |-> hodl_privkey, nLockTime |-> nLockTime,
               prevouts |-> prevout_args, addr |-> hodl_addr],
     scriptPubKey |-> None, prevouts |-> <<>>,
     tx_size |-> None, estimate |-> None, feerate |-> None, fees |-> None,
     stdout |-> <<>>, stderr |-> <<>>, status |-> None]

HodlInit ==
    /\ send_side = SenderMicropaymentChannel(channel_params, sender_seckey,
                        sender_change_scriptPubKey, deposit_nValue)
    /\ recv_side = ReceiverMicropaymentChannel(channel_params, receiver_seckey,
                        deposit_nValue)
    /\ wire = {}
    /\ result = Call("init", <<>>, Return(None))
    /\ now = 0
    /\ chain = {}
    /\ test_run = NoScript
    /\ hodl \in {SpendStart(t, l) : t \in LockTimes, l \in PrevoutLists(MaxInputs)}

\* spend_command up to its loop: the scriptPubKey the outputs must have
SpendBegin ==
    /\ hodl.pc = "spend_command"
    /\ hodl' = [hodl EXCEPT
                   !.pc = "loop",
                   !.scriptPubKey = to_p2sh_scriptPubKey(
                       hodl_redeemScript(hodl.args.privkey, hodl.args.nLockTime))]
    /\ UNCHANGED <<send_side, recv_side, wire, result, now, chain, test_run>>

\* one turn of the loop; parser.error writes its message and exits with 2
SpendPrevout ==
    LET r == spend_prevout(hodl.scriptPubKey,
                           hodl.args.prevouts[Len(hodl.prevouts) + 1])
    IN  /\ hodl.pc = "loop"
        /\ Len(hodl.prevouts) < Len(hodl.args.prevouts)
        /\ hodl' = IF r.err = OK
                    THEN [hodl EXCEPT !.prevouts = Append(@, r.ret)]
                    ELSE [hodl EXCEPT !.pc = "exit",
                                      !.stderr = Append(@, r.err),
                                      !.status = 2]
        /\ UNCHANGED <<send_side, recv_side, wire, result, now, chain, test_run>>

\* after the loop: the size, the fee, the transaction, and its print
SpendBuild(estimate) ==
    LET bytes == tx_size(Len(hodl.prevouts))
        per_kb == feerate(estimate)
        fee == fees(bytes, per_kb)
    IN  /\ hodl.pc = "loop"
        /\ Len(hodl.prevouts) = Len(hodl.args.prevouts)
        /\ hodl' = [hodl EXCEPT
                       !.pc = "done",
                       !.tx_size = bytes,
                       !.estimate = estimate,
                       !.feerate = per_kb,
                       !.fees = fee,
                       !.stdout = Append(@, signed_tx(hodl.args, hodl.prevouts, fee)),
                       !.status = 0]
        /\ UNCHANGED <<send_side, recv_side, wire, result, now, chain, test_run>>

HodlNext ==
    \/ SpendBegin
    \/ SpendPrevout
    \/ \E estimate \in Estimates : SpendBuild(estimate)

HodlSpec == HodlInit /\ [][HodlNext]_vars

(* ------------------------- properties ---------------------------------- *)

\* C1: the receiver replaces last_payment_tx only when it was empty or when
\* the new transaction's vout[1] value is strictly greater than the stored
\* one's; a lower or equal value leaves it unchanged; the stored value never
\* decreases, and a transaction whose value is not below the stored one leaves
\* the stored value equal to its own.
MonotonicAcceptance ==
    [][/\ recv_side'.last_payment_tx # recv_side.last_payment_tx
          => \/ recv_side.last_payment_tx = None
             \/ calc_payment_value(recv_side'.last_payment_tx)
                  > calc_payment_value(recv_side.last_payment_tx)
       /\ total_sent(recv_side') >= total_sent(recv_side)
       /\ (/\ result'.op = "recv_payment_tx"
           /\ result'.err = OK
           /\ \/ recv_side.last_payment_tx = None
              \/ calc_payment_value(result'.args[1])
                   >= calc_payment_value(recv_side.last_payment_tx))
          => calc_payment_value(recv_side'.last_payment_tx)
               = calc_payment_value(result'.args[1])]_vars

\* a payment of the stored value, but another transaction, was handed in
\* and not stored
EqualValueNotStored ==
    /\ result.op = "recv_payment_tx"
    /\ result.err = OK
    /\ result.args[1] # recv_side.last_payment_tx
    /\ calc_payment_value(result.args[1])
         = calc_payment_value(recv_side.last_payment_tx)

\* (a) the transaction spends exactly the deposit outpoint
SpendsDeposit(self, tx) ==
    /\ Len(tx.vin) = 1
    /\ tx.vin[1].prevout = self.params.deposit_outpoint

\* (b) two outputs, the second paying the receiver's destination script
TwoOutputStructure(self, tx) ==
    /\ Len(tx.vout) = 2
    /\ tx.vout[2].scriptPubKey = self.params.receiver_dest_scriptPubKey

\* (c) the unlocking data is the sender key's signature of the transaction
SatisfiesSenderBranch(self, tx) ==
    /\ Len(tx.vin) = 1
    /\ Len(tx.vin[1].scriptSig) = 1
    /\ \E hashtype \in {SIGHASH_ALL, SIGHASH_ANYONECANPAY + SIGHASH_ALL} :
          tx.vin[1].scriptSig[1] =
              Sign(sender_seckey,
                   SignatureHash(deposit_redeemScript(self.params), tx, 0, hashtype),
                   hashtype)

\* (d) the transaction pays the receiver less than the stored one
PaysLess(self, tx) ==
    /\ self.last_payment_tx # None
    /\ Len(tx.vout) >= 2
    /\ calc_payment_value(tx) < calc_payment_value(self.last_payment_tx)

ValidPayment(self, tx) ==
    /\ SpendsDeposit(self, tx)
    /\ TwoOutputStructure(self, tx)
    /\ SatisfiesSenderBranch(self, tx)

\* C2: recv_payment_tx rejects with InvalidPayment, leaving the receiver
\* unchanged, every transaction that does not spend exactly the deposit
\* outpoint, has not the two-output structure, is not signed for the sender's
\* branch, or pays the receiver less than the stored payment; no such
\* transaction is ever stored as last_payment_tx.
RejectsInvalidPayment ==
    [][/\ (/\ result'.op = "recv_payment_tx"
           /\ \/ ~ValidPayment(recv_side, result'.args[1])
              \/ PaysLess(recv_side, result'.args[1]))
          => /\ result'.err = InvalidPayment
             /\ recv_side' = recv_side
       /\ recv_side'.last_payment_tx # None
          => ValidPayment(recv_side', recv_side'.last_payment_tx)]_vars

\* C3: on a ledger that spends an outpoint at most once and accepts a
\* transaction only from its lock time on, at most one of the sender's
\* refund and the receiver's finalization transaction is ever confirmed, and
\* the refund is not confirmed before expiry_nlocktime.
RefundPaymentExclusion ==
    /\ ~(\E r, f \in chain : /\ r.kind = "make_refund_tx"
                             /\ f.kind = "make_finalization_tx")
    /\ \A r \in chain :
          r.kind = "make_refund_tx" => now >= channel_params.expiry_nlocktime

\* C4: total_sent is 0 with no payment and the vout[1] value of
\* last_payment_tx otherwise; a successful send_payment(d, fee) makes it its
\* previous value plus d; it never decreases over any call.
CumulativeTotal ==
    [][/\ total_sent(send_side') =
             (IF send_side'.last_payment_tx = None
              THEN 0
              ELSE send_side'.last_payment_tx.vout[2].nValue)
       /\ (result'.op = "send_payment" /\ result'.err = OK)
          => /\ total_sent(send_side') = total_sent(send_side) + result'.args[1]
             /\ send_side'.last_payment_tx = result'.ret
       /\ total_sent(send_side') >= total_sent(send_side)]_vars

\* a second payment was sent on top of an earlier one
SecondPaymentSent ==
    /\ result.op = "send_payment"
    /\ result.err = OK
    /\ result.args[1] > 0
    /\ total_sent(send_side) > result.args[1]

\* C5: every payment transaction of a successful send_payment(d, fee)
\* has vout[0] + vout[1] + fee = deposit_nValue exactly, with vout[0] >= 0.
BalanceConservation ==
    (result.op = "send_payment" /\ result.err = OK)
    => /\ result.ret.vout[1].nValue + result.ret.vout[2].nValue + result.args[2]
           = send_side.deposit_nValue
       /\ result.ret.vout[1].nValue >= 0

\* a payment was sent with a fee, leaving change
PaidWithFee ==
    /\ result.op = "send_payment"
    /\ result.err = OK
    /\ result.args[2] > 0
    /\ result.ret.vout[2].nValue > 0
    /\ result.ret.vout[1].nValue > 0

\* C6: make_payment_tx and send_payment fail with NegativeAmount when
\* delta_amount < 0 and with InsufficientFunds when deposit_nValue -
\* total_sent - delta_amount - fee < 0, and succeed when it is 0 or more; a
\* failed send_payment leaves last_payment_tx and total_sent as they were.
SenderErrorHandling ==
    [][result'.op \in {"make_payment_tx", "send_payment"}
       => LET delta_amount == result'.args[1]
              change_nValue == send_side.deposit_nValue - total_sent(send_side)
                                 - delta_amount - result'.args[2]
          IN  /\ delta_amount < 0 => result'.err = NegativeAmount
              /\ (delta_amount >= 0 /\ change_nValue < 0)
                    => result'.err = InsufficientFunds
              /\ (delta_amount >= 0 /\ change_nValue >= 0) => result'.err = OK
              /\ result'.err # OK
                    => /\ send_side'.last_payment_tx = send_side.last_payment_tx
                       /\ total_sent(send_side') = total_sent(send_side)
                       /\ result'.ret = None]_vars

\* a payment was refused for insufficient funds after an earlier payment
RefusedAfterPayment ==
    /\ result.op = "send_payment"
    /\ result.err = InsufficientFunds
    /\ send_side.last_payment_tx # None

\* C7: recv_payment_tx with no payment stored stores the transaction and
\* returns its vout[1] value; otherwise it returns that value minus the value
\* of the stored payment, whether or not it stores the transaction.
RecvReturnValue ==
    [][(result'.op = "recv_payment_tx" /\ Len(result'.args[1].vout) >= 2)
       => /\ result'.err = OK
          /\ IF recv_side.last_payment_tx = None
             THEN /\ result'.ret = calc_payment_value(result'.args[1])
                  /\ recv_side'.last_payment_tx = result'.args[1]
             ELSE /\ result'.ret = calc_payment_value(result'.args[1])
                        - calc_payment_value(recv_side.last_payment_tx)
                  /\ result'.ret <= 0
                        => recv_side'.last_payment_tx = recv_side.last_payment_tx]_vars

\* a negative delta was reported
NegativeDeltaReported ==
    /\ result.op = "recv_payment_tx"
    /\ result.err = OK
    /\ result.ret < 0

FinalizationFidelity ==
    (result.op = "make_finalization_tx" /\ result.err = OK)
    => LET last == recv_side.last_payment_tx
           tx == result.ret
       IN  /\ tx.vout = last.vout
           /\ tx.nLockTime = last.nLockTime
           /\ Len(tx.vin) = 1
           /\ tx.vin[1].prevout = last.vin[1].prevout
           /\ tx.vin[1].scriptSig # last.vin[1].scriptSig
           /\ [tx EXCEPT !.vin[1].scriptSig = last.vin[1].scriptSig] = last

\* a finalization transaction was made after the receiver took a payment
\* that built on an earlier one
FinalizedCumulativePayment ==
    /\ result.op = "make_finalization_tx"
    /\ result.err = OK
    /\ result.ret.vout[2].nValue > 5000000

\* C10: make_refund_tx yields, for a given fee, the transaction it yields on
\* the same sender with no payment stored, and that transaction's only output
\* has the value deposit_nValue - fee.
RefundIndependence ==
    result.op = "make_refund_tx"
    => /\ result.err = OK
       /\ result.ret =
             make_refund_tx([send_side EXCEPT !.last_payment_tx = None],
                            result.args[1]).ret
       /\ Len(result.ret.vout) = 1
       /\ result.ret.vout[1].nValue = send_side.deposit_nValue - result.args[1]

\* a refund transaction was made after payments were sent
RefundAfterPayment ==
    /\ result.op = "make_refund_tx"
    /\ total_sent(send_side) > 0

\* C11: make_payment_tx and make_refund_tx leave the sender state as it is,
\* whether they return or raise; only send_payment changes the sender, and
\* of the sender it changes last_payment_tx alone.
SenderPurity ==
    [][/\ result'.op \in {"make_payment_tx", "make_refund_tx"}
          => send_side' = send_side
       /\ send_side' # send_side
          => /\ result'.op = "send_payment"
             /\ send_side' = [send_side EXCEPT
                                !.last_payment_tx = send_side'.last_payment_tx]]_vars

\* a payment transaction was made for a positive amount and not kept
PreviewNotStored ==
    /\ result.op = "make_payment_tx"
    /\ result.err = OK
    /\ result.args[1] > 0
    /\ send_side.last_payment_tx # result.ret

\* C12 as claimed: the input of every payment transaction the sender makes
\* has a sequence number other than 0xFFFFFFFF.
PaymentSequenceNotFinal ==
    (result.op \in {"make_payment_tx", "send_payment"} /\ result.err = OK)
    => \A i \in 1..Len(result.ret.vin) :
          result.ret.vin[i].nSequence # SEQUENCE_FINAL

\* C12: the input of every payment transaction the sender makes has the
\* sequence number 0xFFFFFFFF, the default of MicropaymentParams.make_payment_tx.
PaymentSequenceFinal ==
    (result.op \in {"make_payment_tx", "send_payment"} /\ result.err = OK)
    => /\ Len(result.ret.vin) = 1
       /\ result.ret.vin[1].nSequence = SEQUENCE_FINAL

\* the null micropayment was sent
NullPaymentSent ==
    /\ result.op = "send_payment"
    /\ result.err = OK
    /\ result.args[1] = 0
    /\ result.ret.vout[2].nValue = 0

\* C13: every payment transaction the sender makes has one input spending the
\* deposit outpoint, two outputs, the first to the sender's change script and
\* the second to the receiver's destination script, and lock time 0.
PaymentStructure ==
    (result.op \in {"make_payment_tx", "send_payment"} /\ result.err = OK)
    => /\ Len(result.ret.vin) = 1
       /\ result.ret.vin[1].prevout = send_side.params.deposit_outpoint
       /\ Len(result.ret.vout) = 2
       /\ result.ret.vout[1].scriptPubKey = send_side.sender_change_scriptPubKey
       /\ result.ret.vout[2].scriptPubKey
            = send_side.params.receiver_dest_scriptPubKey
       /\ result.ret.nLockTime = 0

\* a payment transaction that leaves no change was made
PaymentWithoutChange ==
    /\ result.op \in {"make_payment_tx", "send_payment"}
    /\ result.err = OK
    /\ result.ret.vout[1].nValue = 0

\* C14: every refund transaction has one input spending the deposit outpoint
\* with sequence 0, one output paying the sender, the channel's
\* expiry_nlocktime as lock time, and a scriptSig of the sender's signature,
\* the selector 0 of the expiry branch and the deposit script.
RefundStructure ==
    result.op = "make_refund_tx"
    => /\ result.err = OK
       /\ Len(result.ret.vin) = 1
       /\ result.ret.vin[1].prevout = send_side.params.deposit_outpoint
       /\ result.ret.vin[1].nSequence = UInt32(0, 0)
       /\ Len(result.ret.vout) = 1
       /\ result.ret.vout[1].scriptPubKey = send_side.sender_change_scriptPubKey
       /\ result.ret.nLockTime = send_side.params.expiry_nlocktime
       /\ Len(result.ret.vin[1].scriptSig) = 3
       /\ result.ret.vin[1].scriptSig[1].sig.key = send_side.sender_seckey
       /\ result.ret.vin[1].scriptSig[2] = Num(0)
       /\ result.ret.vin[1].scriptSig[3]
            = [script |-> deposit_redeemScript(send_side.params)]

\* a refund transaction was made before any payment, with the script's fee
RefundBeforePayment ==
    /\ result.op = "make_refund_tx"
    /\ result.args[1] = 100000
    /\ send_side.last_payment_tx = None

\* C19: when all calls are made with non-negative fees the sender's
\* total_sent stays between 0 and the deposit, and right after a successful
\* send_payment(d, fee) it is at most the deposit less that fee.
DepositBound ==
    /\ 0 <= total_sent(send_side)
    /\ total_sent(send_side) <= send_side.deposit_nValue
    /\ (result.op = "send_payment" /\ result.err = OK)
       => total_sent(send_side) <= send_side.deposit_nValue - result.args[2]

\* a payment took all of the deposit that its fee left
DepositExhausted ==
    /\ result.op = "send_payment"
    /\ result.err = OK
    /\ result.args[2] > 0
    /\ total_sent(send_side) = send_side.deposit_nValue - result.args[2]

\* C20: when the receiver is given nothing but transactions that
\* send_payment returned, the value it has accepted is at most the sender's
\* total_sent, and so is the receiver's output of a finalization transaction.
CrossPartyBound ==
    /\ total_sent(recv_side) <= total_sent(send_side)
    /\ (result.op = "make_finalization_tx" /\ result.err = OK)
       => result.ret.vout[2].nValue <= total_sent(send_side)

\* the receiver finalized an earlier payment after the sender had sent more
FinalizedEarlierPayment ==
    /\ result.op = "make_finalization_tx"
    /\ result.err = OK
    /\ result.ret.vout[2].nValue > 0
    /\ result.ret.vout[2].nValue < total_sent(send_side)

\* the script ran to its end with a first payment of 5,000,000, a second of 1
\* and the fee 100,000
ScenarioDone ==
    /\ test_run.pc = "done"
    /\ test_run.first = 5000000
    /\ test_run.second = 1
    /\ test_run.fee = 100000

FloorFee(size, estimate) ==
    (size * (IF estimate <= 0 THEN 10000 ELSE estimate)) \div 1000

\* C16 as claimed: the size is 4 + 2 + numInputs*153 + 1 + 34 + 4, the fee is
\* floor(size * feeRate / 1000) with 10000 for a rate <= 0, and the fee is
\* positive.
FeeIsFloor ==
    hodl.pc = "done"
    => /\ hodl.tx_size = 4 + 2 + Len(hodl.args.prevouts) * 153 + 1 + 34 + 4
       /\ hodl.fees = FloorFee(hodl.tx_size, hodl.estimate)
       /\ hodl.fees > 0

\* the argument has the form txid:n
WellFormed(prevout) ==
    /\ Len(prevout) = 2
    /\ prevout[1].hexbytes = <<32>>
    /\ prevout[2].int # <<>>
    /\ prevout[2].int[1] >= 0

\* the outpoint a well-formed argument names
Named(prevout) == COutPoint(prevout[1].text, prevout[2].int[1])

\* the argument passes the three checks of the spend command
PassesChecks(prevout) ==
    /\ WellFormed(prevout)
    /\ Named(prevout) \in DOMAIN UTXO
    /\ UTXO[Named(prevout)].scriptPubKey
         = to_p2sh_scriptPubKey(hodl_redeemScript(hodl.args.privkey,
                                                  hodl.args.nLockTime))

AllPass ==
    \A i \in 1..Len(hodl.args.prevouts) : PassesChecks(hodl.args.prevouts[i])

\* C17: a spend command given an outpoint that is malformed, not found or
\* locked by another script ends in a usage error (a message on stderr, exit
\* status 2) with nothing printed; a transaction is printed only when every
\* outpoint passed the three checks, and the usage error arises only from a
\* failed check.
SpendValidation ==
    /\ hodl.stdout # <<>> => (AllPass /\ hodl.pc = "done")
    /\ (hodl.pc \in {"done", "exit"} /\ ~AllPass)
       => /\ hodl.pc = "exit"
          /\ hodl.status = 2
          /\ hodl.stdout = <<>>
          /\ Len(hodl.stderr) = 1
    /\ hodl.pc = "exit"
       => /\ ~AllPass
          /\ ~PassesChecks(hodl.args.prevouts[Len(hodl.prevouts) + 1])
    /\ hodl.pc = "done" => Len(hodl.stdout) = 1

\* the second outpoint was refused for its script after the first had passed
SecondOutpointRefused ==
    /\ hodl.pc = "exit"
    /\ Len(hodl.prevouts) = 1
    /\ hodl.stderr = <<"Outpoint not correct scriptPubKey">>
    /\ hodl.stdout = <<>>

\* the value of the outputs named by the arguments
RECURSIVE NamedValue(_)
NamedValue(prevout_args) ==
    IF prevout_args = <<>>
    THEN 0
    ELSE UTXO[Named(Head(prevout_args))].nValue + NamedValue(Tail(prevout_args))

\* C18: the transaction the spend command prints has one input for each
\* outpoint given, in their order, each with sequence 0 and a scriptSig of
\* the key's signature and the hodl script; its lock time is the lock time of
\* that script; its single output pays the address the sum of the outpoints'
\* values less the estimated fee.
SpendStructure ==
    hodl.pc = "done"
    => /\ Len(hodl.stdout[1].vin) = Len(hodl.args.prevouts)
       /\ Len(hodl.stdout[1].vin) >= 1
       /\ \A i \in 1..Len(hodl.stdout[1].vin) :
             /\ hodl.stdout[1].vin[i].prevout = Named(hodl.args.prevouts[i])
             /\ hodl.stdout[1].vin[i].nSequence = UInt32(0, 0)
             /\ hodl.stdout[1].vin[i].nSequence # SEQUENCE_FINAL
             /\ Len(hodl.stdout[1].vin[i].scriptSig) = 2
             /\ hodl.stdout[1].vin[i].scriptSig[1].sig.key = hodl.args.privkey
             /\ hodl.stdout[1].vin[i].scriptSig[2].script[1]
                  = Num(hodl.stdout[1].nLockTime)
             /\ to_p2sh_scriptPubKey(hodl.stdout[1].vin[i].scriptSig[2].script)
                  = UTXO[Named(hodl.args.prevouts[i])].scriptPubKey
       /\ hodl.stdout[1].nLockTime = hodl.args.nLockTime
       /\ Len(hodl.stdout[1].vout) = 1
       /\ hodl.stdout[1].vout[1].scriptPubKey = hodl.args.addr
       /\ hodl.stdout[1].vout[1].nValue
            = NamedValue(hodl.args.prevouts) - hodl.fees

\* a transaction spending two different outpoints was printed
TwoOutpointsSpent ==
    /\ hodl.pc = "done"
    /\ Len(hodl.stdout[1].vin) = 2
    /\ hodl.stdout[1].vin[1].prevout # hodl.stdout[1].vin[2].prevout
    /\ hodl.fees > 0

====
